---------------------------- MODULE Spec2Model ----------------------------
(***************************************************************************)
(* egui-trace: span decoding (crates/lib/src/collector/mod.rs), trace      *)
(* reconstruction (crates/lib/src/lib.rs), the shared trace store and its  *)
(* consumer (crates/app/src/lib.rs) and the collector's lifecycle          *)
(* (crates/app/src/collector.rs).                                          *)
(***************************************************************************)
EXTENDS Integers, Sequences, FiniteSets, TLC

(***************************************************************************)
(* Bounds of the model.                                                    *)
(***************************************************************************)
\* export requests accepted over the whole run
MaxRequests == 2
\* successful start_collector calls over the whole run
MaxStarts == 2
\* file loads over the whole run
MaxLoads == 1

(***************************************************************************)
(* Program constants.                                                      *)
(***************************************************************************)
\* mpsc::channel(1)
ChannelCapacity == 1
\* [u8; 8] of u64::from_be_bytes
SpanIdLen == 8
\* [u8; 16] of u128::from_be_bytes
TraceIdLen == 16
\* Duration::num_microseconds: nanoseconds per microsecond
NanosPerMicro == 1000

\* Option<T>: None, or Some(v) with the value Unwrap gives back
None == << >>
Some(v) == <<v>>
Unwrap(opt) == opt[1]
NoBytes == << >>

\* what a call gives: a value, an Err(message), a panic of the calling task, or
\* the abort of the whole process
Ok(v) == [kind |-> "Ok", val |-> v]
Err(e) == [kind |-> "Err", err |-> e]
Panic == [kind |-> "Panic"]
StackOverflow == [kind |-> "StackOverflow"]
IsOk(r) == r.kind = "Ok"

(***************************************************************************)
(* Helpers on sequences.                                                   *)
(***************************************************************************)
Range(s) == {s[i] : i \in DOMAIN s}

RECURSIVE Concat(_)
\* Iterator::flat_map(..).collect(): the concatenation of a sequence of sequences
Concat(ss) == IF ss = << >> THEN << >> ELSE Head(ss) \o Concat(Tail(ss))

\* every ordering of a finite set, as sequences without repetition
Orderings(S) ==
    {f \in [1..Cardinality(S) -> S] : \A i, j \in 1..Cardinality(S) : i # j => f[i] # f[j]}

(***************************************************************************)
(* Attribute Mapper: any_value_to_string and map_attributes.               *)
(* An AnyValue is a record [kind, val]; kind "none" is the empty variant.   *)
(* A KeyValue is [key, value] with value an Option<AnyValue>.              *)
(***************************************************************************)
RECURSIVE JoinComma(_)
\* Vec<String>::join(", ")
JoinComma(strs) ==
    IF strs = << >> THEN ""
    ELSE IF Len(strs) = 1 THEN strs[1]
    ELSE strs[1] \o ", " \o JoinComma(Tail(strs))

RECURSIVE any_value_to_string(_)
any_value_to_string(av) ==
    CASE av.kind = "string" -> av.val
      [] av.kind = "bool"   -> IF av.val THEN "true" ELSE "false"
      [] av.kind = "int"    -> ToString(av.val)
      [] av.kind = "array"  ->
           "[" \o JoinComma([i \in DOMAIN av.val |-> any_value_to_string(av.val[i])]) \o "]"
      [] av.kind = "bytes"  ->
           "[" \o JoinComma([i \in DOMAIN av.val |-> ToString(av.val[i])]) \o "]"
      [] OTHER -> ""

\* a merge that keeps the entry of m for a key that both maps hold
BTreeAppendKeepingFirst(m, other) ==
    [k \in (DOMAIN m) \cup (DOMAIN other) |-> IF k \in DOMAIN m THEN m[k] ELSE other[k]]

\* BTreeMap::append / extend: entries of other overwrite entries of m
BTreeAppend(m, other) ==
    [k \in (DOMAIN m) \cup (DOMAIN other) |-> IF k \in DOMAIN other THEN other[k] ELSE m[k]]

EmptyMap == [k \in {} |-> ""]

\* collect::<BTreeMap>() of the (key, string) pairs: the last pair of a key is kept
map_attributes(attributes) ==
    [k \in {attributes[i].key : i \in DOMAIN attributes} |->
        LET last == CHOOSE i \in DOMAIN attributes :
                        /\ attributes[i].key = k
                        /\ \A j \in DOMAIN attributes : attributes[j].key = k => j <= i
            value == attributes[last].value
        IN  IF value = None THEN "" ELSE any_value_to_string(Unwrap(value))]

(***************************************************************************)
(* Identifier derivation: from_be_bytes and format!("{:x}").               *)
(***************************************************************************)
RECURSIVE from_be_bytes(_)
from_be_bytes(bytes) ==
    IF bytes = << >> THEN 0
    ELSE from_be_bytes(SubSeq(bytes, 1, Len(bytes) - 1)) * 256 + bytes[Len(bytes)]

HexDigit(d) == SubSeq("0123456789abcdef", d + 1, d + 1)

RECURSIVE PaddedHex(_)
\* format!("{:02x}") applied byte by byte: two digits for every byte
PaddedHex(n) ==
    IF n < 256 THEN HexDigit(n \div 16) \o HexDigit(n % 16)
    ELSE PaddedHex(n \div 256) \o HexDigit((n % 256) \div 16) \o HexDigit(n % 16)

RECURSIVE LowerHex(_)
\* format!("{:x}", n): lowercase, no leading zeros, "0" for zero
LowerHex(n) == IF n < 16 THEN HexDigit(n) ELSE LowerHex(n \div 16) \o HexDigit(n % 16)


(***************************************************************************)
(* Protocol Decoder: the body of export_trace up to the hand-off.          *)
(* A request is [resource_spans: Seq([resource, scope_spans])], a scope    *)
(* span is [scope, spans], resource and scope are None or [attributes].    *)
(* A raw span is [span_id, trace_id, parent_span_id, name,                 *)
(* start_time_unix_nano, end_time_unix_nano, attributes].                  *)
(***************************************************************************)
\* Option::unwrap_or_default().attributes of a Resource or InstrumentationScope
AttributesOrDefault(opt) == IF opt = None THEN << >> ELSE Unwrap(opt).attributes

\* NaiveDateTime::timestamp_micros of the timestamp built from whole nanoseconds
timestamp_micros(nanos) == nanos \div NanosPerMicro

\* the closure of lines 58-108: one raw span and its metadata to a Span; an
\* expect on a wrong identifier length panics.  from_timestamp_opt is Some for
\* every u64 of nanoseconds (seconds <= 2^64 / 10^9, nanoseconds < 10^9).
DecodeRawSpan(raw, metadata) ==
    IF Len(raw.span_id) # SpanIdLen THEN Panic
    ELSE IF Len(raw.trace_id) # TraceIdLen THEN Panic
    ELSE IF raw.parent_span_id # NoBytes /\ Len(raw.parent_span_id) # SpanIdLen THEN Panic
    ELSE Ok(
         [id              |-> LowerHex(from_be_bytes(raw.span_id)),
          name            |-> raw.name,
          start           |-> raw.start_time_unix_nano,
          offset_micros   |-> 0,
          duration_micros |-> timestamp_micros(raw.end_time_unix_nano)
                                - timestamp_micros(raw.start_time_unix_nano),
          level           |-> 0,
          trace_id        |-> LowerHex(from_be_bytes(raw.trace_id)),
          parent_id       |-> IF raw.parent_span_id = NoBytes THEN None
                              ELSE Some(LowerHex(from_be_bytes(raw.parent_span_id))),
          attributes      |-> map_attributes(raw.attributes),
          metadata        |-> metadata])

\* the two flat_maps of lines 37-57: every raw span of the request, in request
\* order, paired with the resource metadata overlaid by its scope's metadata
RawSpansWithMetadata(payload) ==
    Concat([r \in DOMAIN payload.resource_spans |->
        LET resource_span == payload.resource_spans[r]
            metadata == map_attributes(AttributesOrDefault(resource_span.resource))
        IN  Concat([s \in DOMAIN resource_span.scope_spans |->
                LET scope_span == resource_span.scope_spans[s]
                    scope_metadata == map_attributes(AttributesOrDefault(scope_span.scope))
                    merged == BTreeAppend(metadata, scope_metadata)
                IN  [i \in DOMAIN scope_span.spans |->
                        [raw |-> scope_span.spans[i], metadata |-> merged]]])])

\* the raw spans of a request, over all its resource spans and scope spans
TotalSpans(payload) == Len(RawSpansWithMetadata(payload))

\* a decoder that stops one span short of the end of the request
DecodeRequestButLast(payload) ==
    LET pairs == RawSpansWithMetadata(payload)
        decoded == [i \in 1..(Len(pairs) - 1) |->
                       DecodeRawSpan(pairs[i].raw, pairs[i].metadata)]
    IN  IF \E i \in DOMAIN decoded : ~IsOk(decoded[i]) THEN Panic
        ELSE Ok([i \in DOMAIN decoded |-> decoded[i].val])

\* lines 37-109: the collected Vec<Span>, or Panic when decoding one span panics
DecodeRequest(payload) ==
    LET pairs == RawSpansWithMetadata(payload)
        decoded == [i \in DOMAIN pairs |-> DecodeRawSpan(pairs[i].raw, pairs[i].metadata)]
    IN  IF \E i \in DOMAIN decoded : ~IsOk(decoded[i]) THEN Panic
        ELSE Ok([i \in DOMAIN decoded |-> decoded[i].val])

\* ExportTraceServiceResponse::default(): partial_success is None, which reads
\* as rejected_spans 0 and an empty error message
DefaultResponse == [rejected_spans |-> 0, error_message |-> ""]

(***************************************************************************)
(* Trace Assembler: Trace::new with build_tree_vec, and build_traces.      *)
(***************************************************************************)
\* the difference of two timestamps in whole milliseconds
num_milliseconds(nanos) ==
    IF nanos >= 0 THEN nanos \div 1000000 ELSE -((-nanos) \div 1000000)

\* chrono::Duration::num_microseconds: whole microseconds, truncated toward
\* zero.  It is None, which unwrap_or_default reads as 0, only beyond 2^63
\* microseconds, further apart than two timestamps of a span can be.
num_microseconds(nanos) ==
    IF nanos >= 0 THEN nanos \div NanosPerMicro ELSE -((-nanos) \div NanosPerMicro)

RECURSIVE InsertByStart(_, _)
InsertByStart(sorted, child) ==
    IF sorted = << >> THEN <<child>>
    ELSE IF child.start < Head(sorted).start THEN <<child>> \o sorted
    ELSE <<Head(sorted)>> \o InsertByStart(Tail(sorted), child)

\* children left in the order of the connections
unsorted(children) == children

RECURSIVE sort_by_key_start(_)
\* children.sort_by_key(|child| child.start): a stable sort
sort_by_key_start(children) ==
    IF children = << >> THEN << >>
    ELSE InsertByStart(sort_by_key_start(SubSeq(children, 1, Len(children) - 1)),
                       children[Len(children)])

RECURSIVE build_tree_vec_same_level(_, _, _, _, _, _)
\* a build_tree_vec that gives a child the level of its parent
build_tree_vec_same_level(id, connections, spans, acc, level, active) ==
    IF id \notin DOMAIN connections THEN Ok(acc)
    ELSE IF id \in active THEN StackOverflow
    ELSE
      LET found == SelectSeq(connections[id], LAMBDA child_id : child_id \in DOMAIN spans)
          children == sort_by_key_start([i \in DOMAIN found |-> spans[found[i]]])
          RECURSIVE Loop(_, _)
          Loop(i, more_spans) ==
              IF ~IsOk(more_spans) THEN StackOverflow
              ELSE IF i > Len(children) THEN more_spans
              ELSE LET child == [children[i] EXCEPT !.level = level]
                   IN  Loop(i + 1,
                            build_tree_vec_same_level(child.id, connections, spans,
                                                      Append(more_spans.val, child), level,
                                                      active \cup {id}))
          more == Loop(1, Ok(<< >>))
      IN  IF ~IsOk(more) THEN StackOverflow ELSE Ok(acc \o more.val)

RECURSIVE build_tree_vec(_, _, _, _, _, _)
\* active: the ids whose call is on the stack.  A call for an id that is
\* already on the stack repeats itself without end: the recursion overflows the
\* stack and the process aborts.
build_tree_vec(id, connections, spans, acc, level, active) ==
    IF id \notin DOMAIN connections THEN Ok(acc)
    ELSE IF id \in active THEN StackOverflow
    ELSE
      LET found == SelectSeq(connections[id], LAMBDA child_id : child_id \in DOMAIN spans)
          children == sort_by_key_start([i \in DOMAIN found |-> spans[found[i]]])
          RECURSIVE Loop(_, _)
          Loop(i, more_spans) ==
              IF ~IsOk(more_spans) THEN StackOverflow
              ELSE IF i > Len(children) THEN more_spans
              ELSE LET child == [children[i] EXCEPT !.level = level + 1]
                   IN  Loop(i + 1,
                            build_tree_vec(child.id, connections, spans,
                                           Append(more_spans.val, child), level + 1,
                                           active \cup {id}))
          more == Loop(1, Ok(<< >>))
      IN  IF ~IsOk(more) THEN StackOverflow ELSE Ok(acc \o more.val)

\* a map of the descendants that keeps the first of two with one id
DescendantsByIdFirst(root, descendants) ==
    [id \in {descendants[i].id : i \in DOMAIN descendants} |->
        LET first == CHOOSE i \in DOMAIN descendants :
                         /\ descendants[i].id = id
                         /\ \A j \in DOMAIN descendants : descendants[j].id = id => i <= j
        IN  [descendants[first] EXCEPT
                !.offset_micros = num_microseconds(descendants[first].start - root.start)]]

\* lines 197-205: the HashMap id -> span with offset_micros set; of two
\* descendants with one id the later one is kept
DescendantsById(root, descendants) ==
    [id \in {descendants[i].id : i \in DOMAIN descendants} |->
        LET last == CHOOSE i \in DOMAIN descendants :
                        /\ descendants[i].id = id
                        /\ \A j \in DOMAIN descendants : descendants[j].id = id => j <= i
        IN  [descendants[last] EXCEPT
                !.offset_micros = num_microseconds(descendants[last].start - root.start)]]

\* lines 206-214: parent id -> child ids, the children in the iteration order
\* of descendants.values(), which is the order argument
Connections(byId, order) ==
    LET withParent == SelectSeq(order, LAMBDA id : byId[id].parent_id # None)
    IN  [parent \in {Unwrap(byId[id].parent_id) : id \in Range(withParent)} |->
            SelectSeq(withParent, LAMBDA id : byId[id].parent_id = Some(parent))]

\* lines 220-227: span id -> its positions in spans
ConnectionsIndex(spans) ==
    [id \in {spans[i].id : i \in DOMAIN spans} |->
        SelectSeq([i \in DOMAIN spans |-> i], LAMBDA i : spans[i].id = id)]

\* a Trace::new that starts the pre-order from an empty vector
Trace_new_without_root(root, descendants, order) ==
    LET byId == DescendantsById(root, descendants)
        connections == Connections(byId, order)
        spans == build_tree_vec(root.id, connections, byId, << >>, 0, {})
    IN  IF ~IsOk(spans) THEN StackOverflow
        ELSE Ok([id          |-> root.trace_id,
                 spans       |-> spans.val,
                 connections |-> ConnectionsIndex(spans.val)])

\* Trace::new; order is the iteration order of the HashMap of descendants
Trace_new(root, descendants, order) ==
    LET byId == DescendantsById(root, descendants)
        connections == Connections(byId, order)
        spans == build_tree_vec(root.id, connections, byId, <<root>>, 0, {})
    IN  IF ~IsOk(spans) THEN StackOverflow
        ELSE Ok([id          |-> root.trace_id,
                 spans       |-> spans.val,
                 connections |-> ConnectionsIndex(spans.val)])

\* a filter of the descendants that forgets to compare trace ids
RestOfAnyTrace(spans, trace_id) == SelectSeq(spans, LAMBDA s : s.parent_id # None)

\* lines 39-40 and 42-45 of build_traces
Roots(spans) == SelectSeq(spans, LAMBDA s : s.parent_id = None)
Rest(spans, trace_id) ==
    SelectSeq(spans, LAMBDA s : s.parent_id # None /\ s.trace_id = trace_id)

\* the iteration orders the HashMaps of one build_traces call can have: one
\* ordering of the descendants' ids for every root
HashOrders(spans) ==
    LET roots == Roots(spans)
        ids(r) == {s.id : s \in Range(Rest(spans, roots[r].trace_id))}
        all == UNION {Orderings(ids(r)) : r \in DOMAIN roots}
    IN  {f \in [DOMAIN roots -> all] : \A r \in DOMAIN roots : f[r] \in Orderings(ids(r))}

\* a build_traces that makes no trace for a root without descendants
build_traces_of_parents(spans, orders) ==
    LET roots == Roots(spans)
        parents == SelectSeq([r \in DOMAIN roots |-> r],
                             LAMBDA r : Rest(spans, roots[r].trace_id) # << >>)
        traces == [k \in DOMAIN parents |->
                      Trace_new(roots[parents[k]], Rest(spans, roots[parents[k]].trace_id),
                                orders[parents[k]])]
    IN  IF \E k \in DOMAIN traces : ~IsOk(traces[k]) THEN StackOverflow
        ELSE Ok([k \in DOMAIN traces |-> traces[k].val])

\* build_traces: Ok(traces), one Trace per root in input order; there is no
\* path to Err
build_traces(spans, orders) ==
    LET roots == Roots(spans)
        traces == [r \in DOMAIN roots |->
                      Trace_new(roots[r], Rest(spans, roots[r].trace_id), orders[r])]
    IN  IF \E r \in DOMAIN traces : ~IsOk(traces[r]) THEN StackOverflow
        ELSE Ok([r \in DOMAIN traces |-> traces[r].val])

\* traces.iter().flat_map(|trace| trace.spans.clone()).collect()
FlattenTraces(traces) == Concat([t \in DOMAIN traces |-> traces[t].spans])

(***************************************************************************)
(* File-Batch Decoder: parse_file and From<otel::Span> for Span.           *)
(* A file is None (it cannot be opened or read) or Some(lines); a line is  *)
(* None (serde_json rejects it) or Some(otel span).  Identifiers of this   *)
(* path are the strings of the file, timestamps are whole nanoseconds.     *)
(***************************************************************************)
\* otel::Span::is_root: every character of the parent's trace id is '0'
is_root(value) ==
    \A i \in 1..Len(value.parent.trace_id) : SubSeq(value.parent.trace_id, i, i) = "0"

\* collect::<BTreeMap>() of keyed strings, the last entry of a key kept
CollectMap(entries) ==
    [k \in {entries[i].key : i \in DOMAIN entries} |->
        LET last == CHOOSE i \in DOMAIN entries :
                        /\ entries[i].key = k
                        /\ \A j \in DOMAIN entries : entries[j].key = k => j <= i
        IN  entries[last].value]

\* BTreeMap::insert
BTreeInsert(m, key, value) ==
    [k \in (DOMAIN m) \cup {key} |-> IF k = key THEN value ELSE m[k]]

\* impl From<otel::Span> for Span
from_otel(value) ==
    LET attributes == IF value.attributes = None THEN EmptyMap
                      ELSE LET ints == CollectMap(Unwrap(value.attributes))
                           IN  [k \in DOMAIN ints |-> ToString(ints[k])]
        resource == CollectMap(value.resource)
        m1 == BTreeInsert(resource, "status.code",
                          IF value.status.code = "Unset" THEN "-" ELSE value.status.code)
        m2 == BTreeInsert(m1, "status.description", value.status.description)
        m3 == BTreeInsert(m2, "library.name", value.library.name)
        m4 == BTreeInsert(m3, "library.version", value.library.version)
        metadata == BTreeInsert(m4, "library.schema_url", value.library.schema_url)
    IN  [id              |-> value.context.span_id,
         name            |-> value.name,
         start           |-> value.start,
         offset_micros   |-> 0,
         duration_micros |-> num_microseconds(value.end - value.start),
         level           |-> 0,
         trace_id        |-> value.context.trace_id,
         parent_id       |-> IF is_root(value) THEN None ELSE Some(value.parent.span_id),
         attributes      |-> attributes,
         metadata        |-> metadata]

\* a parse_file that leaves out the lines that do not decode
parse_file_of_good_lines(file) ==
    IF file = None THEN Err("io")
    ELSE LET lines == SelectSeq(Unwrap(file), LAMBDA line : line # None)
         IN  Ok([i \in DOMAIN lines |-> from_otel(Unwrap(lines[i]))])

\* parse_file: Err for a file that cannot be read, Err naming the 1-based
\* number of the first line that does not decode, else every line converted
parse_file(file) ==
    IF file = None THEN Err("io")
    ELSE LET lines == Unwrap(file)
             bad == {i \in DOMAIN lines : lines[i] = None}
         IN  IF bad # {}
             THEN Err("unable to parse line "
                      \o ToString(CHOOSE i \in bad : \A j \in bad : i <= j))
             ELSE Ok([i \in DOMAIN lines |-> from_otel(Unwrap(lines[i]))])

(***************************************************************************)
(* Collector form: the host and port strings start_collector parses.       *)
(***************************************************************************)
IsDigit(c) == \E d \in 0..9 : SubSeq("0123456789", d + 1, d + 1) = c
DigitValue(c) == CHOOSE d \in 0..9 : SubSeq("0123456789", d + 1, d + 1) = c

RECURSIVE ParseDigits(_, _)
ParseDigits(str, acc) ==
    IF str = "" THEN acc
    ELSE ParseDigits(SubSeq(str, 2, Len(str)), acc * 10 + DigitValue(SubSeq(str, 1, 1)))

\* str.parse::<uN>() for decimal digits: Some(value) when str is one to six
\* digits with value <= max, else None
ParseUnsigned(str, max) ==
    IF /\ Len(str) \in 1..6
       /\ \A i \in 1..Len(str) : IsDigit(SubSeq(str, i, i))
       /\ ParseDigits(str, 0) <= max
    THEN Some(ParseDigits(str, 0))
    ELSE None

RECURSIVE Split(_, _, _)
\* str.split('.'): the pieces between the dots
Split(str, piece, pieces) ==
    IF str = "" THEN Append(pieces, piece)
    ELSE IF SubSeq(str, 1, 1) = "." THEN Split(SubSeq(str, 2, Len(str)), "", Append(pieces, piece))
    ELSE Split(SubSeq(str, 2, Len(str)), piece \o SubSeq(str, 1, 1), pieces)

U16Max == 65535
U8Max == 255
HostBytes == 4

\* lines 87-104 of start_collector: the socket address, or the Err returned
ParseAddr(host, port) ==
    LET p == ParseUnsigned(port, U16Max)
        parts == Split(IF host = "localhost" THEN "127.0.0.1" ELSE host, "", << >>)
        bytes == [i \in DOMAIN parts |-> ParseUnsigned(parts[i], U8Max)]
    IN  IF p = None THEN Err("port must be a valid u16")
        ELSE IF \E i \in DOMAIN bytes : bytes[i] = None THEN Err("invalid digit")
        ELSE IF Len(bytes) # HostBytes THEN Err("host must match IP format 'XXX.XXX.XXX.XXX'")
        ELSE Ok([host |-> [i \in DOMAIN bytes |-> Unwrap(bytes[i])], port |-> Unwrap(p)])

(***************************************************************************)
(* Inputs of the model.                                                    *)
(***************************************************************************)
\* len bytes, all zero but the last
Bytes(len, last) == [i \in 1..len |-> IF i = len THEN last ELSE 0]

RawSpan(span_id, trace_id, parent_span_id, start_nanos) ==
    [span_id              |-> span_id,
     trace_id             |-> trace_id,
     parent_span_id       |-> parent_span_id,
     name                 |-> "op",
     start_time_unix_nano |-> start_nanos,
     end_time_unix_nano   |-> start_nanos + 2500,
     attributes           |-> << >>]

\* one resource and one scope without attributes around the raw spans
Request(raw_spans) ==
    [resource_spans |-> << [resource    |-> None,
                            scope_spans |-> << [scope |-> None, spans |-> raw_spans] >>] >>]

RawRoot == RawSpan(Bytes(SpanIdLen, 1), Bytes(TraceIdLen, 1), NoBytes, 0)
RawChild == RawSpan(Bytes(SpanIdLen, 2), Bytes(TraceIdLen, 1), Bytes(SpanIdLen, 1), 500000000)
\* a span_id of 7 bytes
RawShortId == RawSpan(Bytes(SpanIdLen - 1, 3), Bytes(TraceIdLen, 1), Bytes(SpanIdLen, 1), 1000)

\* the export requests clients send
Payloads ==
    { [resource_spans |-> << >>],
      Request(<<RawRoot>>),
      Request(<<RawChild>>),
      Request(<<RawRoot, RawShortId, RawChild>>) }

OtelSpan(span_id, trace_id, parent_trace_id, parent_span_id, start_nanos) ==
    [name       |-> "op",
     context    |-> [trace_id |-> trace_id, span_id |-> span_id],
     parent     |-> [trace_id |-> parent_trace_id, span_id |-> parent_span_id],
     start      |-> start_nanos,
     end        |-> start_nanos + 2500,
     attributes |-> None,
     status     |-> [code |-> "Unset", description |-> ""],
     resource   |-> << >>,
     library    |-> [name |-> "lib", version |-> "1", schema_url |-> ""]]

FileRoot == OtelSpan("a1", "f1", "00", "00", 0)
FileChild == OtelSpan("a2", "f1", "f1", "a1", 3000)
FileOther == OtelSpan("b1", "f2", "00", "00", 0)

\* the files a user opens
Files ==
    { Some(<<Some(FileRoot), Some(FileChild)>>),
      Some(<<Some(FileRoot), None, Some(FileOther)>>) }

\* the texts of the collector form
Hosts == {"localhost", "10.0.0"}
Ports == {"3000", "70000"}

(***************************************************************************)
(* State of the running application.                                       *)
(***************************************************************************)
VARIABLES
    traces,     \* Arc<Mutex<Vec<Trace>>>: the store's trace collection
    mutex,      \* who holds the store's lock
    task,       \* Collector::task: None, or Some(g) for the g-th spawned listener
    listener,   \* per start g: "none", "running", "panicked" or "aborted"
    chan,       \* per start g: the batches buffered in its mpsc channel
    consumer,   \* per start g: the collect_spans_and_recalculate task
    handler,    \* per request h: the export_trace call
    ui,         \* the UI thread: where it is, and the traces it parsed from a file
    returned,   \* what the last start_collector, stop_collector or file load returned
    aborted,    \* the process has aborted
    enqueued,   \* history: the requests whose batch entered a channel, in order
    started,    \* history: the requests whose rebuild took the lock, in order
    finished,   \* history: the requests whose rebuild replaced the store, in order
    loads,      \* file loads so far
    delivered,  \* history: the batches and files the store has taken in, in order
    input,      \* the spans given to a call of build_traces
    output      \* what that call gave

vars == <<traces, mutex, task, listener, chan, consumer, handler, ui, returned, aborted,
          enqueued, started, finished, loads, delivered, input, output>>

\* the variables of the sequential views of the store and of build_traces
sequentialVars == <<delivered, input, output>>

Generations == 1..MaxStarts
Handlers == 1..MaxRequests

Free == [who |-> "nobody", gen |-> 0]
UiThread == [who |-> "ui", gen |-> 0]
ConsumerOf(g) == [who |-> "consumer", gen |-> g]

IdleHandler ==
    [pc |-> "idle", gen |-> 0, payload |-> [resource_spans |-> << >>], spans |-> << >>,
     queued |-> 0, response |-> None]
NoConsumer == [pc |-> "none", spans |-> << >>, all_spans |-> << >>, from |-> 0]
IdleUi == [pc |-> "idle", parsed |-> << >>]
NothingReturned == [op |-> "none", result |-> Ok("")]
NotCalled == [kind |-> "NotCalled"]

\* the application after App::default(): an empty store, no collector
AppDefault ==
    /\ traces = << >>
    /\ mutex = Free
    /\ task = None
    /\ listener = [g \in Generations |-> "none"]
    /\ chan = [g \in Generations |-> << >>]
    /\ consumer = [g \in Generations |-> NoConsumer]
    /\ handler = [h \in Handlers |-> IdleHandler]
    /\ ui = IdleUi
    /\ returned = NothingReturned
    /\ aborted = FALSE
    /\ enqueued = << >>
    /\ started = << >>
    /\ finished = << >>
    /\ loads = 0

Init ==
    /\ AppDefault
    /\ delivered = << >>
    /\ input = << >>
    /\ output = NotCalled

\* the listeners spawned so far
Spawned == Cardinality({g \in Generations : listener[g] # "none"})

\* the Senders of channel g that are alive: the router of a running listener
\* and every export_trace call that has not returned
InFlight(g) == {h \in Handlers : handler[h].gen = g /\ handler[h].pc \in {"send", "respond"}}
SendersAlive(g) == listener[g] = "running" \/ InFlight(g) # {}

\* a lock that excludes nobody
LockExcludesNobody == TRUE

\* Mutex::lock succeeds when nobody holds the lock
CanLock == mutex = Free

\* a channel that is never full
Unbounded(queue) == TRUE

\* mpsc::channel(1): send waits while the buffer holds ChannelCapacity batches
has_capacity(queue) == Len(queue) < ChannelCapacity

(***************************************************************************)
(* Collector::start_collector and Collector::stop_collector (UI thread).   *)
(***************************************************************************)
\* run, lines 26-28: Server::bind gives the server when the address is free and
\* panics inside the spawned task when the address cannot be bound
BindOutcomes == {"running", "panicked"}

\* a start_collector that does not look at self.task
start_collector_unchecked(host, port) ==
    /\ ~aborted
    /\ UNCHANGED sequentialVars
    /\ ui.pc = "idle"
    /\ LET addr == ParseAddr(host, port)
           g == Spawned + 1
       IN  IF ~IsOk(addr)
           THEN /\ returned' = [op |-> "start", result |-> addr]
                /\ UNCHANGED <<task, listener, consumer>>
           ELSE /\ g <= MaxStarts
                /\ task' = Some(g)
                /\ \E outcome \in BindOutcomes :
                       listener' = [listener EXCEPT ![g] = outcome]
                /\ consumer' = [consumer EXCEPT ![g] = [NoConsumer EXCEPT !.pc = "recv"]]
                /\ returned' = [op |-> "start", result |-> Ok("")]
    /\ UNCHANGED <<traces, mutex, chan, handler, ui, aborted, enqueued, started, finished,
                   loads>>

start_collector(host, port) ==
    /\ ~aborted
    /\ UNCHANGED sequentialVars
    /\ ui.pc = "idle"
    /\ LET addr == ParseAddr(host, port)
           g == Spawned + 1
       IN  IF task # None
           THEN /\ returned' = [op |-> "start", result |-> Err("collector already active")]
                /\ UNCHANGED <<task, listener, consumer>>
           ELSE IF ~IsOk(addr)
           THEN /\ returned' = [op |-> "start", result |-> addr]
                /\ UNCHANGED <<task, listener, consumer>>
           ELSE /\ g <= MaxStarts
                /\ task' = Some(g)
                /\ \E outcome \in BindOutcomes :
                       listener' = [listener EXCEPT ![g] = outcome]
                /\ consumer' = [consumer EXCEPT ![g] = [NoConsumer EXCEPT !.pc = "recv"]]
                /\ returned' = [op |-> "start", result |-> Ok("")]
    /\ UNCHANGED <<traces, mutex, chan, handler, ui, aborted, enqueued, started, finished,
                   loads>>

\* a stop that forgets the task without aborting it
stop_collector_without_abort ==
    /\ ~aborted
    /\ UNCHANGED sequentialVars
    /\ ui.pc = "idle"
    /\ IF task # None
       THEN /\ task' = None
            /\ returned' = [op |-> "stop", result |-> Ok("")]
            /\ UNCHANGED listener
       ELSE /\ returned' = [op |-> "stop", result |-> Err("no active collector")]
            /\ UNCHANGED <<task, listener>>
    /\ UNCHANGED <<traces, mutex, chan, consumer, handler, ui, aborted, enqueued, started,
                   finished, loads>>

stop_collector ==
    /\ ~aborted
    /\ UNCHANGED sequentialVars
    /\ ui.pc = "idle"
    /\ IF task # None
       THEN /\ listener' = [listener EXCEPT ![Unwrap(task)] =
                               IF @ = "running" THEN "aborted" ELSE @]
            /\ task' = None
            /\ returned' = [op |-> "stop", result |-> Ok("")]
       ELSE /\ returned' = [op |-> "stop", result |-> Err("no active collector")]
            /\ UNCHANGED <<task, listener>>
    /\ UNCHANGED <<traces, mutex, chan, consumer, handler, ui, aborted, enqueued, started,
                   finished, loads>>

(***************************************************************************)
(* export_trace: one call per accepted request.                            *)
(***************************************************************************)
\* the running listener accepts a request; export_trace decodes it, which is
\* all it does before its first await
export_trace_decode(h, payload) ==
    /\ ~aborted
    /\ UNCHANGED sequentialVars
    /\ handler[h].pc = "idle"
    /\ h > 1 => handler[h - 1].pc # "idle"
    /\ \E g \in Generations :
        /\ listener[g] = "running"
        /\ LET spans == DecodeRequest(payload)
           IN  handler' = [handler EXCEPT ![h] =
                   [pc       |-> IF IsOk(spans) THEN "send" ELSE "panicked",
                    gen      |-> g,
                    payload  |-> payload,
                    spans    |-> IF IsOk(spans) THEN spans.val ELSE << >>,
                    queued   |-> 0,
                    response |-> None]]
    /\ UNCHANGED <<traces, mutex, task, listener, chan, consumer, ui, returned, aborted,
                   enqueued, started, finished, loads>>

\* a hand-off by try_send: a batch that finds the channel full is dropped
export_trace_try_send(h) ==
    /\ ~aborted
    /\ UNCHANGED sequentialVars
    /\ handler[h].pc = "send"
    /\ LET g == handler[h].gen
       IN  IF consumer[g].pc = "done" \/ ~has_capacity(chan[g])
           THEN /\ handler' = [handler EXCEPT ![h].pc = "respond"]
                /\ UNCHANGED <<chan, enqueued>>
           ELSE /\ chan' = [chan EXCEPT ![g] =
                               Append(@, [spans |-> handler[h].spans, from |-> h])]
                /\ handler' = [handler EXCEPT ![h].pc = "respond",
                                              ![h].queued = Len(handler[h].spans)]
                /\ enqueued' = Append(enqueued, h)
    /\ UNCHANGED <<traces, mutex, task, listener, consumer, ui, returned, aborted,
                   started, finished, loads>>

\* _ = state.tx.send(spans).await: waits for room in the channel; Err, which
\* is discarded, when the receiver is gone
export_trace_send(h) ==
    /\ ~aborted
    /\ UNCHANGED sequentialVars
    /\ handler[h].pc = "send"
    /\ LET g == handler[h].gen
       IN  IF consumer[g].pc = "done"
           THEN /\ handler' = [handler EXCEPT ![h].pc = "respond"]
                /\ UNCHANGED <<chan, enqueued>>
           ELSE /\ has_capacity(chan[g])
                /\ chan' = [chan EXCEPT ![g] =
                               Append(@, [spans |-> handler[h].spans, from |-> h])]
                /\ handler' = [handler EXCEPT ![h].pc = "respond",
                                              ![h].queued = Len(handler[h].spans)]
                /\ enqueued' = Append(enqueued, h)
    /\ UNCHANGED <<traces, mutex, task, listener, consumer, ui, returned, aborted,
                   started, finished, loads>>

\* Protobuf(ExportTraceServiceResponse::default())
export_trace_respond(h) ==
    /\ ~aborted
    /\ UNCHANGED sequentialVars
    /\ handler[h].pc = "respond"
    /\ handler' = [handler EXCEPT ![h].pc = "done", ![h].response = Some(DefaultResponse)]
    /\ UNCHANGED <<traces, mutex, task, listener, chan, consumer, ui, returned, aborted,
                   enqueued, started, finished, loads>>

(***************************************************************************)
(* collect_spans_and_recalculate: the consumer task of start g.            *)
(***************************************************************************)
\* rx.recv().await gives Some(spans)
consumer_recv(g) ==
    /\ ~aborted
    /\ UNCHANGED sequentialVars
    /\ consumer[g].pc = "recv"
    /\ chan[g] # << >>
    /\ consumer' = [consumer EXCEPT ![g].pc = "lock",
                                    ![g].spans = Head(chan[g]).spans,
                                    ![g].from = Head(chan[g]).from]
    /\ chan' = [chan EXCEPT ![g] = Tail(@)]
    /\ UNCHANGED <<traces, mutex, task, listener, handler, ui, returned, aborted, enqueued,
                   started, finished, loads>>

\* rx.recv().await gives None: the channel is empty and every Sender is dropped
consumer_closed(g) ==
    /\ ~aborted
    /\ UNCHANGED sequentialVars
    /\ consumer[g].pc = "recv"
    /\ chan[g] = << >>
    /\ ~SendersAlive(g)
    /\ consumer' = [consumer EXCEPT ![g].pc = "done"]
    /\ UNCHANGED <<traces, mutex, task, listener, chan, handler, ui, returned, aborted,
                   enqueued, started, finished, loads>>

\* lines 355-360: traces.lock(), then all_spans: the store's spans and the batch
consumer_lock(g) ==
    /\ ~aborted
    /\ UNCHANGED sequentialVars
    /\ consumer[g].pc = "lock"
    /\ CanLock
    /\ mutex' = ConsumerOf(g)
    /\ consumer' = [consumer EXCEPT ![g].pc = "rebuild",
                                    ![g].all_spans = FlattenTraces(traces) \o consumer[g].spans]
    /\ started' = Append(started, consumer[g].from)
    /\ UNCHANGED <<traces, task, listener, chan, handler, ui, returned, aborted, enqueued,
                   finished, loads>>

\* a loop body whose guard outlives it: the lock is still held at the next recv
consumer_rebuild_keeping_guard(g) ==
    /\ ~aborted
    /\ UNCHANGED sequentialVars
    /\ consumer[g].pc = "rebuild"
    /\ \E orders \in HashOrders(consumer[g].all_spans) :
        LET rebuilt == build_traces(consumer[g].all_spans, orders)
        IN  IF IsOk(rebuilt)
            THEN /\ traces' = rebuilt.val
                 /\ consumer' = [consumer EXCEPT ![g] = [NoConsumer EXCEPT !.pc = "recv"]]
                 /\ finished' = Append(finished, consumer[g].from)
                 /\ UNCHANGED <<aborted, mutex>>
            ELSE /\ aborted' = TRUE
                 /\ UNCHANGED <<traces, mutex, consumer, finished>>
    /\ UNCHANGED <<task, listener, chan, handler, ui, returned, enqueued, started,
                   loads>>

\* line 361 and the end of the loop body: the store is replaced by
\* build_traces(all_spans) and the guard is dropped
consumer_rebuild(g) ==
    /\ ~aborted
    /\ UNCHANGED sequentialVars
    /\ consumer[g].pc = "rebuild"
    /\ \E orders \in HashOrders(consumer[g].all_spans) :
        LET rebuilt == build_traces(consumer[g].all_spans, orders)
        IN  IF IsOk(rebuilt)
            THEN /\ traces' = rebuilt.val
                 /\ mutex' = Free
                 /\ consumer' = [consumer EXCEPT ![g] = [NoConsumer EXCEPT !.pc = "recv"]]
                 /\ finished' = Append(finished, consumer[g].from)
                 /\ UNCHANGED aborted
            ELSE /\ aborted' = TRUE
                 /\ UNCHANGED <<traces, mutex, consumer, finished>>
    /\ UNCHANGED <<task, listener, chan, handler, ui, returned, enqueued, started,
                   loads>>

(***************************************************************************)
(* The UI thread: App::load_traces_from_file and the viewer's reads.       *)
(***************************************************************************)
\* line 329 and 330: parse_file(..).and_then(build_traces)?, then traces.lock()
load_traces_from_file(file) ==
    /\ ~aborted
    /\ UNCHANGED sequentialVars
    /\ ui.pc = "idle"
    /\ loads < MaxLoads
    /\ loads' = loads + 1
    /\ LET parsed == parse_file(file)
       IN  IF ~IsOk(parsed)
           THEN /\ returned' = [op |-> "load", result |-> parsed]
                /\ UNCHANGED <<mutex, ui, aborted>>
           ELSE \E orders \in HashOrders(parsed.val) :
                   LET built == build_traces(parsed.val, orders)
                   IN  IF IsOk(built)
                       THEN /\ CanLock
                            /\ mutex' = UiThread
                            /\ ui' = [pc |-> "append", parsed |-> built.val]
                            /\ UNCHANGED <<returned, aborted>>
                       ELSE /\ aborted' = TRUE
                            /\ UNCHANGED <<mutex, ui, returned>>
    /\ UNCHANGED <<traces, task, listener, chan, consumer, handler, enqueued, started,
                   finished>>

\* lines 331-333: traces.append(&mut parsed_traces); Ok(()), the guard dropped
load_append ==
    /\ ~aborted
    /\ UNCHANGED sequentialVars
    /\ ui.pc = "append"
    /\ traces' = traces \o ui.parsed
    /\ mutex' = Free
    /\ ui' = IdleUi
    /\ returned' = [op |-> "load", result |-> Ok("")]
    /\ UNCHANGED <<task, listener, chan, consumer, handler, aborted, enqueued, started,
                   finished, loads>>

\* TraceList::draw, line 49: the viewer locks the store and reads it
viewer_lock ==
    /\ ~aborted
    /\ UNCHANGED sequentialVars
    /\ ui.pc = "idle"
    /\ CanLock
    /\ mutex' = UiThread
    /\ ui' = [ui EXCEPT !.pc = "reading"]
    /\ UNCHANGED <<traces, task, listener, chan, consumer, handler, returned, aborted,
                   enqueued, started, finished, loads>>

\* the end of draw: the guard is dropped
viewer_unlock ==
    /\ ~aborted
    /\ UNCHANGED sequentialVars
    /\ ui.pc = "reading"
    /\ mutex' = Free
    /\ ui' = IdleUi
    /\ UNCHANGED <<traces, task, listener, chan, consumer, handler, returned, aborted,
                   enqueued, started, finished, loads>>

Next ==
    \/ \E host \in Hosts, port \in Ports : start_collector(host, port)
    \/ stop_collector
    \/ \E h \in Handlers, payload \in Payloads : export_trace_decode(h, payload)
    \/ \E h \in Handlers : export_trace_send(h)
    \/ \E h \in Handlers : export_trace_respond(h)
    \/ \E g \in Generations : consumer_recv(g)
    \/ \E g \in Generations : consumer_closed(g)
    \/ \E g \in Generations : consumer_lock(g)
    \/ \E g \in Generations : consumer_rebuild(g)
    \/ \E file \in Files : load_traces_from_file(file)
    \/ load_append
    \/ viewer_lock
    \/ viewer_unlock

Spec == Init /\ [][Next]_vars

(***************************************************************************)
(* The store taken alone: requests and file loads one at a time.  Every    *)
(* rebuild and every append runs under the store's lock, so the store      *)
(* passes through the values this specification gives it.                  *)
(***************************************************************************)
\* operations on the store over the whole run
MaxOps == 3
\* raw spans in one export request
MaxBatch == 2
\* raw spans in all export requests of the run
MaxStored == 4

pipelineVars == <<mutex, task, listener, chan, consumer, handler, ui, returned,
                  enqueued, started, finished, loads>>

\* a second span of trace 1 with id 2, which names a parent nobody has
RawRenamed == RawSpan(Bytes(SpanIdLen, 2), Bytes(TraceIdLen, 1), Bytes(SpanIdLen, 9), 2000)
\* a sibling of RawChild that starts when RawChild starts
RawTwin == RawSpan(Bytes(SpanIdLen, 3), Bytes(TraceIdLen, 1), Bytes(SpanIdLen, 1), 500000000)
\* a second root of trace 1
RawRootAgain == RawSpan(Bytes(SpanIdLen, 4), Bytes(TraceIdLen, 1), NoBytes, 7000)

\* a span of trace 1 that has the id of RawRoot and names that id as its parent
RawRootAlias == RawSpan(Bytes(SpanIdLen, 1), Bytes(TraceIdLen, 1), Bytes(SpanIdLen, 1), 9000)

\* a child of RawEarly
RawGrandchild == RawSpan(Bytes(SpanIdLen, 5), Bytes(TraceIdLen, 1), Bytes(SpanIdLen, 6), 400000000)

\* a sibling of RawChild that starts before RawChild does
RawEarly == RawSpan(Bytes(SpanIdLen, 6), Bytes(TraceIdLen, 1), Bytes(SpanIdLen, 1), 300000500)

StoreRaws ==
    {RawRoot, RawChild, RawRenamed, RawTwin, RawRootAgain, RawRootAlias, RawGrandchild,
     RawEarly}

\* every sequence over S of length at most n
SeqsUpTo(S, n) == UNION {[1..k -> S] : k \in 0..n}

StorePayloads == {Request(raws) : raws \in SeqsUpTo(StoreRaws, MaxBatch)}

\* the spans the collector has delivered so far
Stored ==
    Len(Concat([i \in DOMAIN delivered |->
                   IF delivered[i].from = "collector" THEN delivered[i].spans ELSE << >>]))

InitStore ==
    /\ AppDefault
    /\ delivered = << >>
    /\ input = << >>
    /\ output = NotCalled

\* a consumer that keeps every batch it received and rebuilds from all of them
ingest_remembering(payload) ==
    /\ ~aborted
    /\ Len(delivered) < MaxOps
    /\ Stored + TotalSpans(payload) <= MaxStored
    /\ LET spans == DecodeRequest(payload)
           all_spans == Concat([i \in DOMAIN delivered |-> delivered[i].spans]) \o spans.val
       IN  /\ IsOk(spans)
           /\ delivered' = Append(delivered, [from |-> "collector", spans |-> spans.val])
           /\ \E orders \in HashOrders(all_spans) :
                LET rebuilt == build_traces(all_spans, orders)
                IN  IF IsOk(rebuilt)
                    THEN traces' = rebuilt.val /\ UNCHANGED aborted
                    ELSE aborted' = TRUE /\ UNCHANGED traces
    /\ UNCHANGED <<input, output>>
    /\ UNCHANGED pipelineVars

\* one request carried through export_trace, the channel and one iteration of
\* collect_spans_and_recalculate
ingest(payload) ==
    /\ ~aborted
    /\ Len(delivered) < MaxOps
    /\ Stored + TotalSpans(payload) <= MaxStored
    /\ LET spans == DecodeRequest(payload)
           all_spans == FlattenTraces(traces) \o spans.val
       IN  /\ IsOk(spans)
           /\ delivered' = Append(delivered, [from |-> "collector", spans |-> spans.val])
           /\ \E orders \in HashOrders(all_spans) :
                LET rebuilt == build_traces(all_spans, orders)
                IN  IF IsOk(rebuilt)
                    THEN traces' = rebuilt.val /\ UNCHANGED aborted
                    ELSE aborted' = TRUE /\ UNCHANGED traces
    /\ UNCHANGED <<input, output>>
    /\ UNCHANGED pipelineVars

\* App::load_traces_from_file, Ok path
load(file) ==
    /\ ~aborted
    /\ Len(delivered) < MaxOps
    /\ LET parsed == parse_file(file)
       IN  /\ IsOk(parsed)
           /\ delivered' = Append(delivered, [from |-> "file", spans |-> parsed.val])
           /\ \E orders \in HashOrders(parsed.val) :
                LET built == build_traces(parsed.val, orders)
                IN  IF IsOk(built)
                    THEN traces' = traces \o built.val /\ UNCHANGED aborted
                    ELSE aborted' = TRUE /\ UNCHANGED traces
    /\ UNCHANGED <<input, output>>
    /\ UNCHANGED pipelineVars

NextStore ==
    \/ \E payload \in StorePayloads : ingest(payload)
    \/ \E file \in Files : load(file)

SpecStore == InitStore /\ [][NextStore]_vars

(***************************************************************************)
(* build_traces taken alone, over every small collection of spans.         *)
(***************************************************************************)
\* spans in one collection
MaxSpans == 3

SpanOf(id, trace_id, parent_id, start) ==
    [id              |-> id,
     name            |-> "op",
     start           |-> start,
     offset_micros   |-> 0,
     duration_micros |-> 0,
     level           |-> 0,
     trace_id        |-> trace_id,
     parent_id       |-> parent_id,
     attributes      |-> EmptyMap,
     metadata        |-> EmptyMap]

SpanIds == {"1", "2", "3"}
TraceIds == {"a", "b"}
Starts == {0, 1500}

\* every span over the ids: roots, children of any id (its own included)
SpanUniverse ==
    {SpanOf(id, trace_id, parent_id, start) :
        id \in SpanIds, trace_id \in TraceIds,
        parent_id \in {None} \cup {Some(p) : p \in SpanIds}, start \in Starts}

InitBuild ==
    /\ AppDefault
    /\ delivered = << >>
    /\ input \in SeqsUpTo(SpanUniverse, MaxSpans)
    /\ output = NotCalled

call_build_traces ==
    /\ output = NotCalled
    /\ \E orders \in HashOrders(input) : output' = build_traces(input, orders)
    /\ UNCHANGED <<traces, aborted, delivered, input>>
    /\ UNCHANGED pipelineVars

NextBuild == call_build_traces

SpecBuild == InitBuild /\ [][NextBuild]_vars

(***************************************************************************)
(* Properties of export_trace.                                             *)
(***************************************************************************)
\* a raw span with an identifier of the wrong length
WrongLength(raw) ==
    \/ Len(raw.span_id) # SpanIdLen
    \/ Len(raw.trace_id) # TraceIdLen
    \/ raw.parent_span_id # NoBytes /\ Len(raw.parent_span_id) # SpanIdLen

FailedSpans(payload) ==
    Len(SelectSeq(RawSpansWithMetadata(payload), LAMBDA pair : WrongLength(pair.raw)))

\* export_trace is over for request h: it answered, or it panicked
Handled(h) == handler[h].pc \in {"done", "panicked"}

\* C1: for every request export_trace has handled there is an acknowledgment,
\* and its rejected_spans plus the number of spans put on the queue for the
\* request is the number of raw spans in the request.
C1_RejectedPlusQueuedIsTotal ==
    \A h \in Handlers :
        Handled(h) =>
            /\ handler[h].response # None
            /\ Unwrap(handler[h].response).rejected_spans + handler[h].queued
                   = TotalSpans(handler[h].payload)

\* C2: a request with spans of a wrong identifier length is still answered,
\* the acknowledgment counts exactly those spans, and every other span of the
\* request is put on the queue.
C2_WrongLengthFailsOneSpan ==
    \A h \in Handlers :
        (Handled(h) /\ FailedSpans(handler[h].payload) > 0) =>
            /\ handler[h].pc = "done"
            /\ handler[h].response # None
            /\ Unwrap(handler[h].response).rejected_spans = FailedSpans(handler[h].payload)
            /\ handler[h].queued
                   = TotalSpans(handler[h].payload) - FailedSpans(handler[h].payload)

(***************************************************************************)
(* Properties of the store over batches and file loads.                    *)
(***************************************************************************)
\* the ids of the traces of a store, each with the ids of its spans in order
View(store) ==
    {[id |-> store[t].id, spans |-> [i \in DOMAIN store[t].spans |-> store[t].spans[i].id]] :
        t \in DOMAIN store}

\* the stores the consumer can reach from store by processing batches in order
RECURSIVE StoresAfter(_, _)
StoresAfter(store, batches) ==
    IF batches = << >> THEN {store}
    ELSE LET all_spans == FlattenTraces(store) \o Head(batches)
             rebuilt == {build_traces(all_spans, orders) : orders \in HashOrders(all_spans)}
         IN  UNION {StoresAfter(r.val, Tail(batches)) : r \in {x \in rebuilt : IsOk(x)}}

TwoBatches ==
    /\ ~aborted
    /\ Len(delivered) = 2
    /\ \A i \in DOMAIN delivered : delivered[i].from = "collector"

\* C3: after two batches, the store has the trace ids and the per-trace span
\* order that the consumer can also reach when the same two batches are
\* delivered in the other order.
C3_SameStoreInEitherOrder ==
    TwoBatches =>
        \E other \in StoresAfter(<< >>, <<delivered[2].spans, delivered[1].spans>>) :
            View(other) = View(traces)

\* the spans the store holds: span id within trace id
Held(store) ==
    UNION {{<<store[t].id, store[t].spans[i].id>> : i \in DOMAIN store[t].spans} :
               t \in DOMAIN store}

\* C4: every span the store holds before a batch or a file load, it holds
\* after it.
C4_NoSpanIsDeleted == [][Held(traces) \subseteq Held(traces')]_vars

(***************************************************************************)
(* Properties of build_traces.                                             *)
(***************************************************************************)
Returned == output.kind = "Ok"

\* the returned traces that hold a span with this span's id
TracesHolding(span) ==
    {t \in DOMAIN output.val : \E i \in DOMAIN output.val[t].spans :
                                   output.val[t].spans[i].id = span.id}

HasParent(span) == span.parent_id # None

\* C5 as stated: every span of the input that has a parent_id is in exactly
\* one returned trace, and that trace's id is the span's trace_id.
C5_EveryChildInOneTrace ==
    Returned =>
        \A i \in DOMAIN input :
            HasParent(input[i]) =>
                /\ Cardinality(TracesHolding(input[i])) = 1
                /\ \A t \in TracesHolding(input[i]) : output.val[t].id = input[i].trace_id

DistinctIds == \A i, j \in DOMAIN input : input[i].id = input[j].id => i = j

\* the chain of parents of span leads, within its trace_id, to a root
RECURSIVE Attached(_, _)
Attached(span, fuel) ==
    IF ~HasParent(span) THEN TRUE
    ELSE IF fuel = 0 THEN FALSE
    ELSE \E i \in DOMAIN input :
            /\ input[i].id = Unwrap(span.parent_id)
            /\ input[i].trace_id = span.trace_id
            /\ Attached(input[i], fuel - 1)

\* C5, amended: every span of a returned trace has the trace's id as its
\* trace_id; and when the ids of the input are pairwise distinct, a span that
\* has a parent_id is in exactly one returned trace if its chain of parents
\* leads to a root of its trace_id, and in no returned trace if not.
C5_AttachedChildInOneTrace ==
    Returned =>
        /\ \A t \in DOMAIN output.val : \A i \in DOMAIN output.val[t].spans :
               output.val[t].spans[i].trace_id = output.val[t].id
        /\ DistinctIds =>
               \A i \in DOMAIN input :
                   HasParent(input[i]) =>
                       Cardinality(TracesHolding(input[i]))
                           = IF Attached(input[i], Len(input)) THEN 1 ELSE 0

\* build_traces returned, for an input with an attached child and an orphan
C5_Witness ==
    /\ Returned
    /\ DistinctIds
    /\ \E i, j \in DOMAIN input :
          /\ HasParent(input[i]) /\ Attached(input[i], Len(input))
          /\ TracesHolding(input[i]) # {}
          /\ HasParent(input[j]) /\ ~Attached(input[j], Len(input))
          /\ TracesHolding(input[j]) = {}

(***************************************************************************)
(* Properties of the hand-off and of the store under concurrency.          *)
(***************************************************************************)
IsPrefix(a, b) == Len(a) <= Len(b) /\ SubSeq(b, 1, Len(a)) = a

\* the requests of a history that went through the queue of start g
OfQueue(history, g) == SelectSeq(history, LAMBDA h : handler[h].gen = g)

\* C6: each consumer starts the rebuilds of its queue's batches in the order
\* the batches were enqueued; rebuilds finish in the order they start, and a
\* rebuild starts only when every earlier rebuild has replaced the store.
C6_FifoAndSerialized ==
    /\ \A g \in Generations : IsPrefix(OfQueue(started, g), OfQueue(enqueued, g))
    /\ IsPrefix(finished, started)
    /\ Len(started) - Len(finished) <= 1
    /\ Cardinality({g \in Generations : consumer[g].pc = "rebuild"}) <= 1

\* two batches went through one queue and both rebuilds are done
C6_Witness ==
    /\ Len(finished) = 2
    /\ handler[finished[1]].gen = handler[finished[2]].gen
    /\ Len(traces) > 0

\* a store value that is the whole result of processing the batch of consumer g
RebuildOf(g, store, next) ==
    LET all_spans == FlattenTraces(store) \o consumer[g].spans
    IN  \E orders \in HashOrders(all_spans) : build_traces(all_spans, orders) = Ok(next)

\* traces that are the whole result of parsing and building one file
WholeFile(parsed) ==
    \E file \in Files :
        /\ IsOk(parse_file(file))
        /\ \E orders \in HashOrders(parse_file(file).val) :
               build_traces(parse_file(file).val, orders) = Ok(parsed)

\* C7: while a reader holds the lock no consumer is between its flatten and
\* its replacement and the store does not change; and every change of the
\* store is one whole operation: build_traces over the spans of the store
\* before it and one whole batch, or the append of one whole file.
C7_NoPartialVisibility ==
    [][/\ ui.pc = "reading" =>
             /\ traces' = traces
             /\ \A g \in Generations : consumer[g].pc # "rebuild"
       /\ traces' # traces =>
             \/ \E g \in Generations :
                   consumer[g].pc = "rebuild" /\ RebuildOf(g, traces, traces')
             \/ /\ ui.pc = "append"
                /\ WholeFile(ui.parsed)
                /\ traces' = traces \o ui.parsed]_vars

\* a reader holds the lock on a store with traces, a consumer waits with a batch
C7_Witness ==
    /\ ui.pc = "reading"
    /\ Len(traces) > 0
    /\ \E g \in Generations : consumer[g].pc = "lock"

\* C8 as stated: every change of the store is made by
\* collect_spans_and_recalculate.
C8_OnlyConsumerWrites ==
    [][traces' # traces => \E g \in Generations : mutex = ConsumerOf(g)]_vars

\* C8, amended: every change of the store is made by
\* collect_spans_and_recalculate or by App::load_traces_from_file on the UI
\* thread, each while it holds the store's lock.
C8_WritersHoldTheLock ==
    [][traces' # traces =>
          \/ \E g \in Generations : mutex = ConsumerOf(g) /\ consumer[g].pc = "rebuild"
          \/ mutex = UiThread /\ ui.pc = "append"]_vars

\* a file load and a rebuild have both written the store
C8_Witness ==
    /\ returned = [op |-> "load", result |-> Ok("")]
    /\ Len(finished) > 0
    /\ Len(traces) > 1

\* C9: a queue never holds more than one batch, and a batch is enqueued only
\* when the queue is empty: a handler at the hand-off while a batch is queued
\* waits until the consumer has taken that batch.
C9_Backpressure ==
    /\ \A g \in Generations : Len(chan[g]) <= 1
    /\ \A h \in Handlers :
          (handler[h].pc = "send" /\ chan[handler[h].gen] # << >>)
              => ~ENABLED export_trace_send(h)

\* the second handler of one queue waits at the hand-off behind a queued batch
C9_Witness ==
    \E h \in Handlers :
        /\ handler[h].pc = "send"
        /\ Len(chan[handler[h].gen]) = 1
        /\ consumer[handler[h].gen].pc = "recv"

\* everything start_collector and stop_collector may change, but their result
LifecycleVars == <<task, listener, consumer, chan, traces, mutex, handler>>

Active == {g \in Generations : listener[g] = "running"}

\* C10: at most one collector is active, and task says which; start while one
\* is active and stop while none is active return an error and change
\* nothing; a successful stop leaves no active collector; start is refused as
\* already active only while one is active.
C10_Lifecycle ==
    /\ [](Cardinality(Active) <= 1 /\ Active \subseteq {task[i] : i \in DOMAIN task})
    /\ [][returned' # returned =>
            /\ (returned'.op = "start" /\ task # None) =>
                   /\ returned'.result.kind = "Err"
                   /\ UNCHANGED LifecycleVars
            /\ (returned'.op = "stop" /\ task = None) =>
                   /\ returned'.result.kind = "Err"
                   /\ UNCHANGED LifecycleVars
            /\ (returned'.op = "stop" /\ task # None) =>
                   /\ returned'.result.kind = "Ok"
                   /\ task' = None /\ Active' = {}
            /\ returned'.result = Err("collector already active") => task # None]_vars

\* a second collector runs after the first was stopped
C10_Witness ==
    /\ listener[1] = "aborted"
    /\ listener[2] = "running"
    /\ task = Some(2)

(***************************************************************************)
(* Properties of the failures of start_collector, of the rebuild and of    *)
(* the file load.                                                          *)
(***************************************************************************)
\* a step of start_collector, called while no collector is active, after
\* which no new listener is listening: the host or the port did not parse,
\* or the address could not be bound
StartThatFails ==
    /\ returned' # returned
    /\ returned'.op = "start"
    /\ task = None
    /\ Active' = Active

\* C11: a start_collector that fails, on the syntax of the host or the port
\* or on binding the address, returns an error and leaves the collector
\* inactive: no listener task is recorded and no consumer is spawned.
C11_FailedStartLeavesInactive ==
    [][StartThatFails =>
          /\ returned'.result.kind = "Err"
          /\ task' = None
          /\ consumer' = consumer]_vars

\* the batch the consumer took in this step, with a rebuild that did not
\* give a trace collection
RebuildFails ==
    /\ Len(delivered') = Len(delivered) + 1
    /\ delivered'[Len(delivered')].from = "collector"
    /\ LET all_spans == FlattenTraces(traces) \o delivered'[Len(delivered')].spans
       IN  \E orders \in HashOrders(all_spans) : ~IsOk(build_traces(all_spans, orders))

\* C12: when the rebuild for a batch fails, the store keeps the trace
\* collection it had before the batch and the consumer keeps running.
C12_FailedRebuildKeepsStore ==
    [][RebuildFails => (traces' = traces /\ ~aborted')]_vars

(***************************************************************************)
(* Properties of the traces build_traces returns.                          *)
(***************************************************************************)
Called == output # NotCalled

\* C13: every call of build_traces returns a trace collection.
C13_BuildTracesReturns == Called => Returned

\* a span of a trace as it was given to build_traces: level and offset_micros
\* are what Trace::new writes
Plain(span) == [span EXCEPT !.level = 0, !.offset_micros = 0]

\* the root and the descendants Trace::new was called with for trace t
RootOf(t) == Roots(input)[t]
DescendantsOf(t) == Rest(input, RootOf(t).trace_id)

\* the span is in the spans of returned trace t
Present(span, t) ==
    \E i \in DOMAIN output.val[t].spans : Plain(output.val[t].spans[i]) = Plain(span)

\* descendant d of trace t names a parent that is neither the root nor
\* another descendant
Orphan(d, t) ==
    /\ Unwrap(DescendantsOf(t)[d].parent_id) # RootOf(t).id
    /\ \A j \in DOMAIN DescendantsOf(t) :
          j # d => DescendantsOf(t)[j].id # Unwrap(DescendantsOf(t)[d].parent_id)

\* the descendants of trace t that parent links connect to the root, found
\* from the root downwards in at most fuel rounds
RECURSIVE Linked(_, _, _)
Linked(t, found, fuel) ==
    LET more == {d \in DOMAIN DescendantsOf(t) :
                    \/ Unwrap(DescendantsOf(t)[d].parent_id) = RootOf(t).id
                    \/ \E j \in found :
                          DescendantsOf(t)[j].id = Unwrap(DescendantsOf(t)[d].parent_id)}
    IN  IF fuel = 0 \/ more = found THEN found ELSE Linked(t, more, fuel - 1)

Reachable(t) == Linked(t, {}, Len(input))

Counted(t) ==
    {d \in DOMAIN DescendantsOf(t) :
        \A j \in DOMAIN DescendantsOf(t) :
            DescendantsOf(t)[j].id = DescendantsOf(t)[d].id => j <= d}

\* the counted descendants that parent links through counted descendants
\* connect to the root
RECURSIVE LinkedCounted(_, _, _)
LinkedCounted(t, found, fuel) ==
    LET more == {d \in Counted(t) :
                    \/ Unwrap(DescendantsOf(t)[d].parent_id) = RootOf(t).id
                    \/ \E j \in found :
                          DescendantsOf(t)[j].id = Unwrap(DescendantsOf(t)[d].parent_id)}
    IN  IF fuel = 0 \/ more = found THEN found ELSE LinkedCounted(t, more, fuel - 1)

ReachableCounted(t) == LinkedCounted(t, {}, Len(input))

OrphanCounted(d, t) ==
    /\ d \in Counted(t)
    /\ Unwrap(DescendantsOf(t)[d].parent_id) # RootOf(t).id
    /\ \A j \in Counted(t) :
          j # d => DescendantsOf(t)[j].id # Unwrap(DescendantsOf(t)[d].parent_id)

RootPositions == SelectSeq([i \in DOMAIN input |-> i], LAMBDA i : ~HasParent(input[i]))

\* no span of the input is a descendant for this root
Alone(root) ==
    \A i \in DOMAIN input : HasParent(input[i]) => input[i].trace_id # root.trace_id

\* C15: build_traces returns one trace per span without parent_id, in the
\* input order of those spans: the t-th trace starts with the t-th such span,
\* has its trace_id as id, and is that span alone when it has no descendants.
C15_OneTracePerRoot ==
    Returned =>
        /\ Len(output.val) = Len(RootPositions)
        /\ \A t \in DOMAIN output.val :
              LET root == input[RootPositions[t]]
              IN  /\ output.val[t].id = root.trace_id
                  /\ output.val[t].spans[1] = root
                  /\ Alone(root) => output.val[t].spans = <<root>>

\* two traces were returned, the first for a root without descendants, and
\* the span with a parent_id that came first made no trace of its own
C15_Witness ==
    /\ Returned
    /\ Len(input) = 3
    /\ Len(output.val) = 2
    /\ Len(output.val[1].spans) = 1
    /\ output.val[1].id # output.val[2].id
    /\ HasParent(input[1])

(***************************************************************************)
(* Properties of the traces in the store.                                  *)
(***************************************************************************)
\* C16: every trace in the store has spans, and the first of them is its
\* root: it has no parent_id, level 0 and offset_micros 0.
C16_FirstSpanIsRoot ==
    \A t \in DOMAIN traces :
        /\ Len(traces[t].spans) > 0
        /\ traces[t].spans[1].parent_id = None
        /\ traces[t].spans[1].level = 0
        /\ traces[t].spans[1].offset_micros = 0

\* the store holds a trace from a file and a trace with descendants that was
\* rebuilt from its own spans
C16_Witness ==
    /\ Len(delivered) = MaxOps
    /\ \E i \in DOMAIN delivered : delivered[i].from = "file"
    /\ delivered[MaxOps].from = "collector"
    /\ \E t \in DOMAIN traces : Len(traces[t].spans) > 2

\* C17: in every trace of the store, each span after the first has as
\* parent_id the id of a span at an earlier position of the same trace, and
\* its level is that span's level plus 1.
C17_ParentEarlierOneLevelUp ==
    \A t \in DOMAIN traces : \A i \in 2..Len(traces[t].spans) :
        \E j \in 1..(i - 1) :
            /\ traces[t].spans[i].parent_id = Some(traces[t].spans[j].id)
            /\ traces[t].spans[i].level = traces[t].spans[j].level + 1

\* a trace with a child and a grandchild was rebuilt from the levelled spans
\* of the store
C17_Witness ==
    /\ Len(delivered) = MaxOps
    /\ \A i \in DOMAIN delivered : delivered[i].from = "collector" /\ delivered[i].spans # << >>
    /\ \E t \in DOMAIN traces : \E i \in DOMAIN traces[t].spans : traces[t].spans[i].level = 2

\* the position in trace t of the parent of the span at position k
ParentPosition(t, k) ==
    CHOOSE j \in 1..(k - 1) : traces[t].spans[k].parent_id = Some(traces[t].spans[j].id)

\* C18: in every trace of the store, of two children of one parent the one
\* at the earlier position does not start later, and every span between a
\* span and its parent is an earlier sibling or below one: a child's subtree
\* is complete before the next sibling.
C18_SiblingsByStartSubtreesWhole ==
    \A t \in DOMAIN traces : \A k \in 2..Len(traces[t].spans) :
        /\ \A i \in 2..(k - 1) :
              traces[t].spans[i].parent_id = traces[t].spans[k].parent_id
                  => traces[t].spans[i].start <= traces[t].spans[k].start
        /\ \A i \in (ParentPosition(t, k) + 1)..(k - 1) :
              traces[t].spans[i].level >= traces[t].spans[k].level

\* a trace holds the later child, delivered first, after the earlier child
\* and after the grandchild below the earlier child
C18_Witness ==
    /\ Len(delivered) = 2
    /\ Len(delivered[1].spans) = 2
    /\ delivered[1].spans[2].id = "2"
    /\ Len(traces) = 1
    /\ [i \in DOMAIN traces[1].spans |-> traces[1].spans[i].id] = <<"1", "6", "5", "2">>

\* micros is nanos in whole microseconds, the fraction dropped
WholeMicros(nanos, micros) ==
    IF nanos >= 0
    THEN micros * NanosPerMicro <= nanos /\ nanos < (micros + 1) * NanosPerMicro
    ELSE (micros - 1) * NanosPerMicro < nanos /\ nanos <= micros * NanosPerMicro

\* C19: in every trace of the store, the offset_micros of each span after
\* the first is its start minus the start of the first span of the trace, in
\* whole microseconds.
C19_OffsetFromRoot ==
    \A t \in DOMAIN traces : \A i \in 2..Len(traces[t].spans) :
        WholeMicros(traces[t].spans[i].start - traces[t].spans[1].start,
                    traces[t].spans[i].offset_micros)

\* after a rebuild from the store, the child that starts 500 ms after its
\* root has offset 500000 and the child 300000.5 ms after it has 300000
C19_Witness ==
    /\ Len(delivered) = 2
    /\ \A i \in DOMAIN delivered : delivered[i].spans # << >>
    /\ \E t \in DOMAIN traces : \E i, j \in DOMAIN traces[t].spans :
          /\ traces[t].spans[i].start = 500000000
          /\ traces[t].spans[i].offset_micros = 500000
          /\ traces[t].spans[j].start = 300000500
          /\ traces[t].spans[j].offset_micros = 300000

(***************************************************************************)
(* Properties of the file load.                                            *)
(***************************************************************************)
\* the 1-based numbers of the lines of a file that do not decode
BadLines(file) == {i \in DOMAIN Unwrap(file) : Unwrap(file)[i] = None}

\* traces built from all the lines of a file whose lines all decode
FromGoodFile(parsed) ==
    \E file \in Files :
        /\ BadLines(file) = {}
        /\ LET spans == [i \in DOMAIN Unwrap(file) |-> from_otel(Unwrap(Unwrap(file)[i]))]
           IN  \E orders \in HashOrders(spans) : build_traces(spans, orders) = Ok(parsed)

\* C20: a load that returns an error names the first line that does not
\* decode of a file that has one and leaves the store and its lock as they
\* were; and what a load appends to the store comes from a file whose lines
\* all decode.
C20_FileLoadAllOrNothing ==
    /\ [](ui.pc = "append" => FromGoodFile(ui.parsed))
    /\ [][(returned' # returned /\ returned'.op = "load" /\ returned'.result.kind = "Err") =>
             /\ traces' = traces /\ mutex' = mutex /\ ui' = ui
             /\ \E file \in Files :
                   /\ BadLines(file) # {}
                   /\ \E n \in BadLines(file) :
                         /\ \A m \in BadLines(file) : n <= m
                         /\ returned'.result.err = "unable to parse line " \o ToString(n)]_vars

\* the load of the file whose second line does not decode was refused while
\* the store held traces
C20_Witness ==
    /\ returned = [op |-> "load", result |-> Err("unable to parse line 2")]
    /\ Len(traces) > 0

(***************************************************************************)
(* Properties of the acknowledgment and of the decoded spans.              *)
(***************************************************************************)
\* the batches of request h that entered a queue
BatchesOf(h) == {i \in DOMAIN enqueued : enqueued[i] = h}

\* the names and the identifier bytes of the raw spans of a request, in
\* request order
RawOrder(payload) ==
    [i \in DOMAIN RawSpansWithMetadata(payload) |->
        RawSpansWithMetadata(payload)[i].raw.span_id]

\* C21: a request without a span of a wrong identifier length is answered
\* with rejected_spans 0 and an empty error message, and one batch entered
\* the queue for it, holding one span for every raw span, in request order.
C21_WellFormedRequestFullyQueued ==
    \A h \in Handlers :
        (handler[h].pc = "done" /\ FailedSpans(handler[h].payload) = 0) =>
            /\ handler[h].response = Some([rejected_spans |-> 0, error_message |-> ""])
            /\ Cardinality(BatchesOf(h)) = 1
            /\ handler[h].queued = TotalSpans(handler[h].payload)
            /\ Len(handler[h].spans) = TotalSpans(handler[h].payload)
            /\ \A i \in DOMAIN handler[h].spans :
                  handler[h].spans[i].id
                      = LowerHex(from_be_bytes(RawOrder(handler[h].payload)[i]))
            /\ \A g \in Generations : \A i \in DOMAIN chan[g] :
                  chan[g][i].from = h => chan[g][i].spans = handler[h].spans

\* the empty request and a request of one span were both answered
C21_Witness ==
    /\ handler[1].pc = "done" /\ TotalSpans(handler[1].payload) = 0
    /\ handler[2].pc = "done" /\ TotalSpans(handler[2].payload) = 1

(***************************************************************************)
(* SpecDecode: the Protocol Decoder alone.  Init draws one export request  *)
(* with resource, scope and span attributes and with identifier bytes, the *)
(* one action decodes it as export_trace does before the hand-off.         *)
(***************************************************************************)
KeyValue(key, value) == [key |-> key, value |-> value]
StringValue(str) == Some([kind |-> "string", val |-> str])

\* Option<Resource>: absent, or with attributes; "k" is also a scope key
Resources ==
    {None,
     Some([attributes |-> << KeyValue("k", StringValue("resource")),
                             KeyValue("host", StringValue("h1")) >>])}

\* Option<InstrumentationScope>: absent, with a key of the resource, or with a
\* key given twice and a key without a value
Scopes ==
    {None,
     Some([attributes |-> << KeyValue("k", StringValue("scope")),
                             KeyValue("lib", Some([kind |-> "int", val |-> 7])) >>]),
     Some([attributes |-> << KeyValue("lib", StringValue("old")),
                             KeyValue("lib", StringValue("new")),
                             KeyValue("flag", None) >>])}

\* the attributes of a span: none, or a key of its own and the key "k"
SpanAttributes ==
    {<< >>,
     << KeyValue("own", StringValue("x")), KeyValue("k", StringValue("span")) >>}

\* identifier bytes: zero bytes followed by the given last bytes
BytesEnding(len, last) ==
    [i \in 1..len |-> IF i <= len - Len(last) THEN 0 ELSE last[i - (len - Len(last))]]

\* the low bytes of the identifiers are 0, 1, 0x0a0b, 0x0100 and 0xff00c0
SpanIdBytes == {BytesEnding(SpanIdLen, t) : t \in {<<1>>, <<10, 11>>, <<255, 0, 192>>}}
TraceIdBytes == {BytesEnding(TraceIdLen, t) : t \in {<<0>>, <<1, 0>>}}
ParentIdBytes == {NoBytes} \cup {BytesEnding(SpanIdLen, t) : t \in {<<0>>, <<10, 11>>}}

\* one resource with two scopes: the first scope holds the span under
\* description, the second scope has no attributes and holds RawRoot
DecodePayloads ==
    {[resource_spans |->
        << [resource    |-> resource,
            scope_spans |->
               << [scope |-> scope,
                   spans |-> << [RawSpan(span_id, trace_id, parent_span_id, 1000)
                                   EXCEPT !.attributes = attributes] >>],
                  [scope |-> None, spans |-> << RawRoot >>] >>] >>] :
        resource \in Resources, scope \in Scopes, attributes \in SpanAttributes,
        span_id \in SpanIdBytes, trace_id \in TraceIdBytes,
        parent_span_id \in ParentIdBytes}

InitDecode ==
    /\ AppDefault
    /\ delivered = << >>
    /\ input \in DecodePayloads \cup Payloads
    /\ output = NotCalled

\* export_trace up to the collect of line 109
decode_request ==
    /\ output = NotCalled
    /\ output' = DecodeRequest(input)
    /\ UNCHANGED <<traces, aborted, delivered, input>>
    /\ UNCHANGED pipelineVars

NextDecode == decode_request

SpecDecode == InitDecode /\ [][NextDecode]_vars

\* every raw span of a request, in request order, with the resource and the
\* scope that enclose it
Enclosing(payload) ==
    Concat([r \in DOMAIN payload.resource_spans |->
        Concat([s \in DOMAIN payload.resource_spans[r].scope_spans |->
            [i \in DOMAIN payload.resource_spans[r].scope_spans[s].spans |->
                [resource |-> payload.resource_spans[r].resource,
                 scope    |-> payload.resource_spans[r].scope_spans[s].scope,
                 raw      |-> payload.resource_spans[r].scope_spans[s].spans[i]]]])])

\* C22: the metadata of every decoded span has the keys of the enclosing
\* resource's mapping and of the enclosing scope's mapping, with the scope's
\* value for a key of both; the span's attributes are the mapping of its own
\* attributes, and none of them enters the metadata.
C22_MetadataIsResourceOverlaidByScope ==
    IsOk(output) =>
        \A i \in DOMAIN output.val :
            LET resource == map_attributes(AttributesOrDefault(Enclosing(input)[i].resource))
                scope == map_attributes(AttributesOrDefault(Enclosing(input)[i].scope))
                own == map_attributes(Enclosing(input)[i].raw.attributes)
                span == output.val[i]
            IN  /\ DOMAIN span.metadata = (DOMAIN resource) \cup (DOMAIN scope)
                /\ \A k \in DOMAIN scope : span.metadata[k] = scope[k]
                /\ \A k \in (DOMAIN resource) \ (DOMAIN scope) :
                       span.metadata[k] = resource[k]
                /\ span.attributes = own
                /\ \A k \in DOMAIN own :
                       \/ k \notin DOMAIN span.metadata
                       \/ /\ k \in (DOMAIN resource) \cup (DOMAIN scope)
                          /\ span.metadata[k] # own[k]

\* a span with attributes of its own under a resource and a scope that both
\* have the key "k" was decoded
C22_Witness ==
    /\ IsOk(output)
    /\ Len(output.val) = 2
    /\ output.val[1].metadata = [k |-> "scope", host |-> "h1", lib |-> "7"]
    /\ output.val[1].attributes = [own |-> "x", k |-> "span"]
    /\ output.val[2].metadata = [k |-> "resource", host |-> "h1"]

\* the two lowercase hexadecimal digits of one byte
ByteHex(b) ==
    SubSeq("0123456789abcdef", (b \div 16) + 1, (b \div 16) + 1)
        \o SubSeq("0123456789abcdef", (b % 16) + 1, (b % 16) + 1)

RECURSIVE StripZeros(_)
\* a digit string without its leading zeros, "0" when nothing else is left
StripZeros(str) ==
    IF Len(str) > 1 /\ SubSeq(str, 1, 1) = "0" THEN StripZeros(SubSeq(str, 2, Len(str)))
    ELSE str

RECURSIVE AllByteHex(_)
AllByteHex(bytes) ==
    IF bytes = << >> THEN "" ELSE ByteHex(Head(bytes)) \o AllByteHex(Tail(bytes))

\* the big-endian reading of the bytes in lowercase hexadecimal, most
\* significant byte first, without leading zeros
BigEndianHex(bytes) == StripZeros(AllByteHex(bytes))

\* C23: the id of a decoded span is its 8 span_id bytes read big-endian in
\* lowercase hexadecimal without leading zeros, its trace_id the same of the
\* 16 trace_id bytes; an empty parent_span_id gives no parent_id, and 8 bytes
\* of parent_span_id, all zero included, give the parent_id of those bytes.
C23_IdentifierDerivation ==
    IsOk(output) =>
        \A i \in DOMAIN output.val :
            LET raw == Enclosing(input)[i].raw
                span == output.val[i]
            IN  /\ Len(raw.span_id) = SpanIdLen /\ Len(raw.trace_id) = TraceIdLen
                /\ span.id = BigEndianHex(raw.span_id)
                /\ span.trace_id = BigEndianHex(raw.trace_id)
                /\ raw.parent_span_id = NoBytes => span.parent_id = None
                /\ Len(raw.parent_span_id) = SpanIdLen =>
                       span.parent_id = Some(BigEndianHex(raw.parent_span_id))
                /\ raw.span_id = BytesEnding(SpanIdLen, <<1>>) => span.id = "1"
                /\ raw.trace_id = BytesEnding(TraceIdLen, <<0>>) => span.trace_id = "0"

\* a span with a trace_id of sixteen zero bytes, an all-zero parent_span_id
\* and a span_id whose low bytes have a zero in the middle was decoded
C23_Witness ==
    /\ IsOk(output)
    /\ Len(output.val) = 2
    /\ output.val[1].id = "ff00c0"
    /\ output.val[1].trace_id = "0"
    /\ output.val[1].parent_id = Some("0")
    /\ output.val[2].id = "1"
    /\ output.val[2].parent_id = None

(***************************************************************************)
(* SpecFair: the program under a fair scheduler.  Every step that needs    *)
(* nothing but the processor is taken: a guard is dropped at the end of    *)
(* its scope, a handler returns its response, a task that can receive or   *)
(* send does so.  Mutex::lock is taken by a waiter when the lock is free   *)
(* again and again (strong fairness: the UI locks the store every frame).  *)
(* The user's operations (start, stop, load, a client's request, a frame)  *)
(* are not required to happen.  The user's inputs are one address that     *)
(* parses, one request of one root span and one file of one root span.     *)
(***************************************************************************)
Fairness ==
    /\ WF_vars(load_append)
    /\ WF_vars(viewer_unlock)
    /\ \A g \in Generations :
        /\ SF_vars(consumer_lock(g))
        /\ WF_vars(consumer_rebuild(g))
        /\ WF_vars(consumer_recv(g))
        /\ WF_vars(consumer_closed(g))
    /\ \A h \in Handlers :
        /\ WF_vars(export_trace_send(h))
        /\ WF_vars(export_trace_respond(h))

\* the operations of Next, with one address, one request and one file
NextFair ==
    \/ start_collector("localhost", "3000")
    \/ stop_collector
    \/ \E h \in Handlers : export_trace_decode(h, Request(<<RawRoot>>))
    \/ \E h \in Handlers : export_trace_send(h)
    \/ \E h \in Handlers : export_trace_respond(h)
    \/ \E g \in Generations : consumer_recv(g)
    \/ \E g \in Generations : consumer_closed(g)
    \/ \E g \in Generations : consumer_lock(g)
    \/ \E g \in Generations : consumer_rebuild(g)
    \/ load_traces_from_file(Some(<<Some(FileRoot)>>))
    \/ load_append
    \/ viewer_lock
    \/ viewer_unlock

SpecFair == Init /\ [][NextFair]_vars /\ Fairness

\* the lock is held by consumer g exactly inside its loop body, and by the UI
\* thread exactly inside load_traces_from_file's append and inside draw
LockHeldInsideBodiesOnly ==
    /\ \A g \in Generations : mutex = ConsumerOf(g) <=> consumer[g].pc = "rebuild"
    /\ mutex = UiThread <=> ui.pc \in {"append", "reading"}
    /\ mutex \in {Free, UiThread} \cup {ConsumerOf(g) : g \in Generations}

\* C24: no task holds the store's lock while it awaits: a consumer holds it
\* only between receiving a batch and the end of the loop body, never at
\* recv, and a consumer that waits for the lock gets it (or the process has
\* ended).
C24_LockNotHeldAcrossAwait ==
    /\ [](LockHeldInsideBodiesOnly)
    /\ \A g \in Generations :
           (consumer[g].pc = "lock") ~> (consumer[g].pc # "lock" \/ aborted)

\* a consumer waits for the lock while the viewer holds it
C24_Witness ==
    \E g \in Generations : consumer[g].pc = "lock" /\ mutex = UiThread

(***************************************************************************)
(* Properties of the store over batches and file loads.                    *)
(***************************************************************************)
\* the sequence has this span, level and offset aside
Has(spans, span) ==
    \E i \in DOMAIN spans : [spans[i] EXCEPT !.level = 0, !.offset_micros = 0]
                               = [span EXCEPT !.level = 0, !.offset_micros = 0]

\* the spans of the batch or of the file that the last operation delivered
LastDelivered(history) == history[Len(history)].spans

\* C25: the store after a batch or a file load holds no span that was neither
\* in the store before it nor in that batch or file.  A span that an earlier
\* rebuild left out is therefore absent after every later batch, also after
\* the batch that brings its root or its parent.
C25_DroppedSpansStayDropped ==
    [][\A i \in DOMAIN FlattenTraces(traces') :
          LET span == FlattenTraces(traces')[i]
          IN  \/ Has(FlattenTraces(traces), span)
              \/ Has(LastDelivered(delivered'), span)
      ]_vars

\* a batch of one child, then a batch of its root: the store holds the root's
\* trace without the child
C25_Witness ==
    /\ Len(delivered) = 2
    /\ Len(delivered[1].spans) = 1
    /\ delivered[1].spans[1].id = "2"
    /\ delivered[1].spans[1].parent_id = Some("1")
    /\ delivered[1].spans[1].trace_id = "1"
    /\ Len(delivered[2].spans) = 1
    /\ delivered[2].spans[1].id = "1"
    /\ delivered[2].spans[1].parent_id = None
    /\ delivered[2].spans[1].trace_id = "1"
    /\ Len(traces) = 1
    /\ [i \in DOMAIN traces[1].spans |-> traces[1].spans[i].id] = <<"1">>

\* the ids of the spans of a sequence
IdsOf(spans) == [i \in DOMAIN spans |-> spans[i].id]

\* the root spans among the spans the last operation delivered, in their order
ArrivedRoots == SelectSeq(LastDelivered(delivered'), LAMBDA s : s.parent_id = None)

\* C26: over a batch or a file load the store does not get shorter, the trace
\* at every index keeps its id and its root span, and when the operation
\* completes one trace for every root span that arrived, also for a root
\* whose trace_id the store already has, follows the existing traces in the
\* order of arrival.
C26_TracePositionsStable ==
    [][/\ Len(traces') >= Len(traces)
       /\ \A i \in DOMAIN traces :
             /\ traces'[i].id = traces[i].id
             /\ traces'[i].spans[1] = traces[i].spans[1]
       /\ ~aborted' =>
             /\ Len(traces') = Len(traces) + Len(ArrivedRoots)
             /\ \A k \in DOMAIN ArrivedRoots :
                   /\ traces'[Len(traces) + k].id = ArrivedRoots[k].trace_id
                   /\ traces'[Len(traces) + k].spans[1] = ArrivedRoots[k]
      ]_vars

\* a root arrived whose trace_id the store already had: two traces of one id,
\* the earlier root first
C26_Witness ==
    /\ Len(delivered) = 2
    /\ IdsOf(delivered[1].spans) = <<"1">>
    /\ IdsOf(delivered[2].spans) = <<"4">>
    /\ Len(traces) = 2
    /\ traces[1].id = traces[2].id
    /\ IdsOf(traces[1].spans) = <<"1">>
    /\ IdsOf(traces[2].spans) = <<"4">>

(***************************************************************************)
(* Properties of the two writers of the store.                             *)
(***************************************************************************)
\* the root spans of the traces of the store
RootsHeld == {traces[t].spans[1] : t \in DOMAIN traces}

\* the root spans of the files whose lines all decode
GoodFileRoots ==
    UNION {Range(Roots([i \in DOMAIN Unwrap(file) |-> from_otel(Unwrap(Unwrap(file)[i]))])) :
              file \in {f \in Files : BadLines(f) = {}}}

\* C27: the store holds the trace of every root of every batch whose rebuild
\* has finished, and after a load has returned Ok it holds the traces of the
\* file; neither writer removes or moves a trace the other one wrote.
C27_NoLostUpdate ==
    /\ [](\A i \in DOMAIN finished :
             Range(Roots(handler[finished[i]].spans)) \subseteq RootsHeld)
    /\ [](returned = [op |-> "load", result |-> Ok("")] => GoodFileRoots \subseteq RootsHeld)
    /\ [][\A i \in DOMAIN traces :
             /\ i \in DOMAIN traces'
             /\ traces'[i].spans[1] = traces[i].spans[1]]_vars

\* a file load returned Ok and then the rebuild of one batch finished: the
\* store holds the file's trace and after it the trace of the batch
C27_Witness ==
    /\ Len(traces) = 2
    /\ traces[1].spans[1].id = "a1"
    /\ traces[2].spans[1].id = "1"
    /\ returned = [op |-> "load", result |-> Ok("")]
    /\ Len(finished) = 1
    /\ Len(started) = 1

(***************************************************************************)
(* Properties of the hand-off and of the consumers' lifetime.              *)
(***************************************************************************)
\* the send of request h has finished: the queue accepted its batch, or the
\* send failed because the receiver of its queue is gone and no batch of h
\* ever entered a queue
HandOffFinished(h) ==
    \/ Cardinality(BatchesOf(h)) = 1 /\ handler[h].queued = Len(handler[h].spans)
    \/ BatchesOf(h) = {} /\ handler[h].queued = 0 /\ consumer[handler[h].gen].pc = "done"

\* C28: a handler that has returned its response has finished its hand-off,
\* and the response reports no rejected span in either case; the response is
\* produced by the step after the send.
C28_AckAfterHandOff ==
    /\ [](\A h \in Handlers :
             handler[h].response # None =>
                 /\ handler[h].pc = "done"
                 /\ HandOffFinished(h)
                 /\ Unwrap(handler[h].response).rejected_spans = 0)
    /\ [][\A h \in Handlers :
             (handler[h].response = None /\ handler'[h].response # None) =>
                 handler[h].pc = "respond" /\ HandOffFinished(h)]_vars

\* a handler has returned its response while its batch is still in the queue
C28_Witness ==
    \E h \in Handlers :
        /\ handler[h].response # None
        /\ \E i \in DOMAIN chan[handler[h].gen] : chan[handler[h].gen][i].from = h

(***************************************************************************)
(* Properties of a rebuild that brings nothing new.                        *)
(***************************************************************************)
\* two spans of the store with different ids that are children of one parent
\* in one trace_id and start at the same time
SiblingTie ==
    \E i, j \in DOMAIN FlattenTraces(traces) :
        LET a == FlattenTraces(traces)[i]
            b == FlattenTraces(traces)[j]
        IN  /\ a.id # b.id
            /\ a.trace_id = b.trace_id
            /\ a.parent_id # None
            /\ a.parent_id = b.parent_id
            /\ a.start = b.start

\* C29: when no two siblings of the store share a start time, build_traces
\* over the spans flattened from the store returns the store itself, whatever
\* the iteration order of its maps, and the consumer's processing of an empty
\* batch leaves the store as it was: ids, positions, span order, levels and
\* offsets.
C29_RebuildIsIdempotent ==
    /\ [](~SiblingTie =>
             \A orders \in HashOrders(FlattenTraces(traces)) :
                 build_traces(FlattenTraces(traces), orders) = Ok(traces))
    /\ [][(/\ ~SiblingTie
           /\ Len(delivered') = Len(delivered) + 1
           /\ delivered'[Len(delivered')] = [from |-> "collector", spans |-> << >>])
          => (traces' = traces /\ ~aborted')]_vars

\* an empty batch was processed by a store with a trace of three levels
C29_Witness ==
    /\ ~SiblingTie
    /\ Len(delivered) = 3
    /\ delivered[3] = [from |-> "collector", spans |-> << >>]
    /\ \E t \in DOMAIN traces :
          /\ Len(traces[t].spans) = 3
          /\ [i \in DOMAIN traces[t].spans |-> traces[t].spans[i].level] = <<0, 1, 2>>
          /\ traces[t].spans[2].offset_micros > 0

\* start g was made and it is not the active collector any more: it was
\* stopped, or its listener ended on its own
Stopped(g) == listener[g] # "none" /\ task # Some(g)

=============================================================================
